---- MODULE Spec2Model ----
(***************************************************************************)
(* AgenticVerifier, AutoPresent benchmark:                                 *)
(*   - runners/autopresent.py: main, run_tasks_parallel and                *)
(*     run_autopresent_task (the task scheduler), specification Spec;      *)
(*   - evaluators/autopresent/gather.py: gather_results (the round         *)
(*     aggregator), specification GatherSpec.                              *)
(* Times are in seconds.  A float is modelled by an integer; a quotient    *)
(* x / d is modelled by the pair <<x, d>>.                                 *)
(***************************************************************************)
EXTENDS Integers, Sequences, FiniteSets, TLC

VARIABLES
    \* ---- runners/autopresent.py ----
    sequential,           \* args.sequential
    max_workers,          \* args.max_workers
    tasks,                \* the list load_autopresent_dataset returned
    beh,                  \* environment: what happens to each task's process
    pc,                   \* where main() is
    written,              \* the run artifacts written so far, in order
    i,                    \* next task to dispatch (sequential) or submit (parallel)
    st,                   \* per task: new, pending, running, finished, raised
    proc,                 \* per task: none, running, exited0, exited1, killed
    elapsed,              \* per task: seconds its process has run
    outcome,              \* per task: what run_autopresent_task returned
    first_batch,          \* as_completed: futures already finished at its start
    completed,            \* as_completed: futures finished since, oldest first
    order,                \* the tasks whose outcome main has processed, in order
    successful_tasks,
    failed_tasks,
    failed_task_details,
    results,              \* the content of execution_results.json
    prev_run,             \* what the previous invocation on the same dataset left
    \* ---- evaluators/autopresent/gather.py ----
    slide_name,           \* the --slide_name argument
    g_pc,                 \* where gather_results is
    name_i,               \* index in names of the category at hand
    pages_num,            \* len(prs.slides) of the category at hand
    slide_num,
    round_num,
    disk,                 \* environment: the rounds of the item at hand scanned so far
    opened,               \* the files opened for the item at hand and the one before
    best_round_score,     \* in eighths: 8 * the composite score
    best_round_ref_eval,
    best_round_ref_free_eval,
    best_round_num,
    ref_eval_result,
    ref_free_eval_result,
    fail_num,
    total_num,
    overall_score,
    caps,                 \* environment: how many items and round directories
    history,              \* per item gathered so far: whether it had a best round
    round_score,          \* in eighths: 8 * the composite score of the last round parsed
    \* ---- runners/autopresent.py, load_autopresent_dataset ----
    dataset,              \* environment: the dataset root on disk
    task,                 \* args.task
    task_id,              \* args.task_id
    l_pc,                 \* where main() is with the loader
    loaded,               \* the list load_autopresent_dataset returned
    \* ---- evaluators/autopresent/evaluate.py ----
    refine_path,          \* environment: the item's output directory on disk
    e_pc,                 \* where evaluate_single_slide is
    files,                \* the round directories still to process
    file,                 \* the round directory at hand
    calls,                \* the scorer processes launched so far, in order
    alive,                \* the launched scorer processes that have not ended
    slides_dirs,          \* environment: the entries of the category's output directory
    arg_max_workers,      \* --max_workers
    cpu_count,            \* environment: os.cpu_count(), 0 for None
    m_pc,                 \* where main of evaluate.py is
    index_list,           \* the sorted item numbers
    futures,              \* per submitted call of evaluate_single_slide, its state
    \* ---- evaluators/autopresent/gather.py: the parse of one ref_based.txt ----
    ref_eval_lines,       \* environment: the lines of the round's ref_based.txt
    parse_pc,             \* whether the lines have been read
    round_ref_eval        \* the 4 metrics of the round

runnerVars == <<sequential, max_workers, tasks, beh, pc, written, i, st, proc,
                elapsed, outcome, first_batch, completed, order,
                successful_tasks, failed_tasks, failed_task_details, results,
                prev_run>>

gatherVars == <<slide_name, g_pc, name_i, pages_num, slide_num, round_num, disk,
                opened, best_round_score, best_round_ref_eval,
                best_round_ref_free_eval, best_round_num, ref_eval_result,
                ref_free_eval_result, fail_num, total_num, overall_score,
                caps, history, round_score>>

loaderVars == <<dataset, task, task_id, l_pc, loaded>>

evalVars == <<refine_path, e_pc, files, file, calls, alive>>

poolVars == <<slides_dirs, arg_max_workers, cpu_count, m_pc, index_list, futures>>

parseVars == <<ref_eval_lines, parse_pc, round_ref_eval>>

vars == <<runnerVars, gatherVars, loaderVars, evalVars, poolVars, parseVars>>

(***************************************************************************)
(* Bounds of the model.                                                    *)
(***************************************************************************)
MaxTasks == 3
MaxWorkers == 2
Ticks == 2

(***************************************************************************)
(* runners/autopresent.py                                                  *)
(***************************************************************************)
TIMEOUT == 3600

\* The clock advances in steps of TickLen seconds.
TickLen == TIMEOUT \div Ticks

Min(a, b) == IF a < b THEN a ELSE b

Last(s) == s[Len(s)]

Range(s) == {s[k] : k \in 1..Len(s)}

\* What the environment does to one task:
\*   exit0     the pipeline process exits with code 0 at once
\*   exit1     the pipeline process exits with a non-zero code at once
\*   slow0     the process exits with code 0 after some time, before the ceiling
\*   hang      the process never exits by itself
\*   launchexc subprocess.run raises an OSError (inside the try block)
\*   prepexc   mkdir or the command print raises (before the try block)
Behaviours == {"exit0", "exit1", "slow0", "hang", "launchexc", "prepexc"}

Categories == <<"business", "design">>

SlideDirs == <<"slide_1", "slide_2", "slide_3">>

\* The k-th task configuration of the dataset (load_autopresent_dataset's dict).
TaskCfg(k) ==
    LET cat == Categories[((k - 1) % 2) + 1]
        dir == SlideDirs[(((k - 1) \div 2) % 3) + 1]
    IN  [task_name |-> cat, task_dir |-> <<"data", cat, dir>>]

NoOutcome == [kind |-> "none"]

\* str(e) of the exceptions.
CalledProcessErrorMsg == "Command returned non-zero exit status 1."
OSErrorMsg == "[Errno 8] Exec format error"
PrepErrorMsg == "sequence item 6: expected str instance, NoneType found"

\* task_name = task_config['task_name'] + "/" + task_config['task_dir'].split('/')[-1]
TaskName(cfg) == <<cfg.task_name, Last(cfg.task_dir)>>

\* task_name = task_config['task_dir'].split('/')[-1]
ShortName(cfg) == <<Last(cfg.task_dir)>>

\* The tuples run_autopresent_task returns.
RetSuccess(cfg) ==
    [kind |-> "return", task_name |-> TaskName(cfg), success |-> TRUE, error |-> ""]

RetCalledProcessError(cfg) ==
    [kind |-> "return", task_name |-> TaskName(cfg), success |-> FALSE,
     error |-> CalledProcessErrorMsg]

RetTimeout(cfg) ==
    [kind |-> "return", task_name |-> TaskName(cfg), success |-> FALSE,
     error |-> "Timeout"]

RetException(cfg, msg) ==
    [kind |-> "return", task_name |-> TaskName(cfg), success |-> FALSE, error |-> msg]

\* An exception that leaves run_autopresent_task.
Raised(msg) == [kind |-> "raise", error |-> msg]

N == Len(tasks)

Tasks == 1..N

Running == {t \in Tasks : st[t] = "running"}

Settled(t) == st[t] \in {"finished", "raised"}

NoRun == [pc |-> "none"]

Terminal == pc \in {"done", "crashed"}

\* Mutant of MainSetup: the output directory and the two records are written
\* before the task list is checked.
MainSetup_WritesFirst ==
    /\ pc = "start"
    /\ written' = written \o <<"output_dir", "args.json", "tasks.json">>
    /\ pc' = IF tasks = <<>> THEN "exit1" ELSE IF sequential THEN "seq" ELSE "submit"
    /\ UNCHANGED <<sequential, max_workers, tasks, beh, i, st, proc, elapsed,
                   outcome, first_batch, completed, order, successful_tasks,
                   failed_tasks, failed_task_details, results, prev_run,
                   gatherVars, loaderVars, evalVars, poolVars, parseVars>>

\* main, from the loaded task list to the start of the run.
MainSetup ==
    /\ pc = "start"
    /\ IF tasks = <<>>
          THEN /\ pc' = "exit1"
               /\ written' = written
          ELSE /\ pc' = IF sequential THEN "seq" ELSE "submit"
               /\ written' = written \o <<"output_dir", "args.json", "tasks.json">>
    /\ UNCHANGED <<sequential, max_workers, tasks, beh, i, st, proc, elapsed,
                   outcome, first_batch, completed, order, successful_tasks,
                   failed_tasks, failed_task_details, results, prev_run,
                   gatherVars, loaderVars, evalVars, poolVars, parseVars>>

\* Mutant of Classify: subprocess.run without check=True.
Classify_NoCheck(cfg, fate) ==
    IF fate \in {"exited0", "exited1"} THEN RetSuccess(cfg)
    ELSE IF fate = "killed" THEN RetTimeout(cfg)
    ELSE RetException(cfg, OSErrorMsg)

\* The try block of run_autopresent_task: subprocess.run(cmd, check=True,
\* timeout=3600) and the three except clauses, on the fate of the process.
Classify(cfg, fate) ==
    IF fate = "exited0" THEN RetSuccess(cfg)
    ELSE IF fate = "exited1" THEN RetCalledProcessError(cfg)
    ELSE IF fate = "killed" THEN RetTimeout(cfg)
    ELSE RetException(cfg, OSErrorMsg)

\* A future that completes tells as_completed's waiter, once main has
\* installed it.
Notify(t) == IF pc = "collect" THEN Append(completed, t) ELSE completed

\* run_autopresent_task from its first line to the launch of the process.
\* The output directory and the command are prepared outside the try block.
StartTask(t) ==
    /\ elapsed' = [elapsed EXCEPT ![t] = 0]
    /\ IF beh[t] = "prepexc"
          THEN /\ st' = [st EXCEPT ![t] = "raised"]
               /\ outcome' = [outcome EXCEPT ![t] = Raised(PrepErrorMsg)]
               /\ proc' = proc
          ELSE IF beh[t] = "launchexc"
          THEN /\ st' = [st EXCEPT ![t] = "finished"]
               /\ outcome' = [outcome EXCEPT ![t] = Classify(tasks[t], "nolaunch")]
               /\ proc' = proc
          ELSE /\ st' = [st EXCEPT ![t] = "running"]
               /\ outcome' = outcome
               /\ proc' = [proc EXCEPT ![t] = "running"]

\* The exit code the process of task t ends with.
ExitFate(t) == IF beh[t] = "exit1" THEN "exited1" ELSE "exited0"

\* The process of task t exits by itself; subprocess.run returns or raises
\* CalledProcessError, and run_autopresent_task returns.
ProcExit(t) ==
    /\ t \in Tasks
    /\ st[t] = "running"
    /\ proc[t] = "running"
    /\ beh[t] \in {"exit0", "exit1", "slow0"}
    /\ beh[t] = "slow0" => elapsed[t] > 0
    /\ elapsed[t] < TIMEOUT
    /\ proc' = [proc EXCEPT ![t] = ExitFate(t)]
    /\ st' = [st EXCEPT ![t] = "finished"]
    /\ outcome' = [outcome EXCEPT ![t] = Classify(tasks[t], ExitFate(t))]
    /\ completed' = Notify(t)
    /\ UNCHANGED <<sequential, max_workers, tasks, beh, pc, written, i, elapsed,
                   first_batch, order, successful_tasks, failed_tasks,
                   failed_task_details, results, prev_run,
                   gatherVars, loaderVars, evalVars, poolVars, parseVars>>

\* Mutant of AtCeiling: a ceiling of half an hour.
AtCeiling_Half(t) == elapsed[t] >= TIMEOUT \div 2

\* When subprocess.run gives up on a process.
AtCeiling(t) == elapsed[t] >= TIMEOUT

\* Mutant of CeilingFate: the wait is given up and the process left alone.
CeilingFate_NoKill(t) == "running"

\* What subprocess.run does to the process at the ceiling, before it raises
\* TimeoutExpired: process.kill() and process.wait().
CeilingFate(t) == "killed"

\* The process of task t is still running at the ceiling: subprocess.run kills
\* it and raises TimeoutExpired, and run_autopresent_task returns "Timeout".
TimeoutExpired(t) ==
    /\ t \in Tasks
    /\ st[t] = "running"
    /\ proc[t] = "running"
    /\ AtCeiling(t)
    /\ proc' = [proc EXCEPT ![t] = CeilingFate(t)]
    /\ st' = [st EXCEPT ![t] = "finished"]
    /\ outcome' = [outcome EXCEPT ![t] = Classify(tasks[t], "killed")]
    /\ completed' = Notify(t)
    /\ UNCHANGED <<sequential, max_workers, tasks, beh, pc, written, i, elapsed,
                   first_batch, order, successful_tasks, failed_tasks,
                   failed_task_details, results, prev_run,
                   gatherVars, loaderVars, evalVars, poolVars, parseVars>>

(***************************************************************************)
(* Sequential mode: the loop of main.                                      *)
(***************************************************************************)
\* The counters after one outcome, in main's loop.
SequentialCount(acc, o) ==
    IF o.success
       THEN [acc EXCEPT !.s = @ + 1]
       ELSE [acc EXCEPT !.f = @ + 1,
                        !.d = Append(@, [task_name |-> o.task_name, error |-> o.error])]

Acc == [s |-> successful_tasks, f |-> failed_tasks, d |-> failed_task_details]

\* main calls run_autopresent_task for the next task; an exception it raises
\* is caught nowhere and ends main.
SeqStart ==
    /\ pc = "seq"
    /\ i <= N
    /\ st[i] = "new"
    /\ StartTask(i)
    /\ pc' = IF beh[i] = "prepexc" THEN "crashed" ELSE pc
    /\ UNCHANGED <<sequential, max_workers, tasks, beh, written, i, first_batch,
                   completed, order, successful_tasks, failed_tasks,
                   failed_task_details, results, prev_run,
                   gatherVars, loaderVars, evalVars, poolVars, parseVars>>

\* run_autopresent_task has returned: main counts the outcome.
SeqRecord ==
    /\ pc = "seq"
    /\ i <= N
    /\ st[i] = "finished"
    /\ LET a == SequentialCount(Acc, outcome[i])
       IN  /\ successful_tasks' = a.s
           /\ failed_tasks' = a.f
           /\ failed_task_details' = a.d
    /\ order' = Append(order, i)
    /\ i' = i + 1
    /\ pc' = IF i = N THEN "summary" ELSE pc
    /\ UNCHANGED <<sequential, max_workers, tasks, beh, written, st, proc,
                   elapsed, outcome, first_batch, completed, results, prev_run,
                   gatherVars, loaderVars, evalVars, poolVars, parseVars>>

(***************************************************************************)
(* Parallel mode: run_tasks_parallel.                                      *)
(***************************************************************************)
\* executor.submit for the next task of the list.
Submit ==
    /\ pc = "submit"
    /\ i <= N
    /\ st' = [st EXCEPT ![i] = "pending"]
    /\ i' = i + 1
    /\ UNCHANGED <<sequential, max_workers, tasks, beh, pc, written, proc,
                   elapsed, outcome, first_batch, completed, order,
                   successful_tasks, failed_tasks, failed_task_details, results,
                   prev_run,
                   gatherVars, loaderVars, evalVars, poolVars, parseVars>>

\* Mutant of WorkerFree: one worker of the pool is never used.
WorkerFree_OneLess == Cardinality(Running) + 1 < max_workers

\* The pool has a worker for one more task.
WorkerFree == Cardinality(Running) < max_workers

\* The work queue of the pool is first in, first out.
CanStart(t) ==
    /\ pc \in {"submit", "collect"}
    /\ st[t] = "pending"
    /\ \A u \in Tasks : u < t => st[u] # "pending"
    /\ WorkerFree

\* A worker thread takes task t from the queue and runs run_autopresent_task.
WorkerStart(t) ==
    /\ t \in Tasks
    /\ CanStart(t)
    /\ StartTask(t)
    /\ completed' = IF beh[t] \in {"prepexc", "launchexc"} THEN Notify(t) ELSE completed
    /\ UNCHANGED <<sequential, max_workers, tasks, beh, pc, written, i,
                   first_batch, order, successful_tasks, failed_tasks,
                   failed_task_details, results, prev_run,
                   gatherVars, loaderVars, evalVars, poolVars, parseVars>>

\* as_completed(future_to_task) starts: the futures already finished are
\* yielded first.
AsCompleted ==
    /\ pc = "submit"
    /\ i > N
    /\ first_batch' = {t \in Tasks : Settled(t)}
    /\ pc' = "collect"
    /\ UNCHANGED <<sequential, max_workers, tasks, beh, written, i, st, proc,
                   elapsed, outcome, completed, order, successful_tasks,
                   failed_tasks, failed_task_details, results, prev_run,
                   gatherVars, loaderVars, evalVars, poolVars, parseVars>>

\* Mutant of ParallelCount: the except clause does not count the failure.
ParallelCount_RaiseNotCounted(acc, o, cfg) ==
    IF o.kind = "return"
       THEN IF o.success
               THEN [acc EXCEPT !.s = @ + 1]
               ELSE [acc EXCEPT !.f = @ + 1,
                                !.d = Append(@, [task_name |-> o.task_name,
                                                 error |-> o.error])]
       ELSE [acc EXCEPT !.d = Append(@, [task_name |-> ShortName(cfg),
                                         error |-> o.error])]

\* Mutant of ParallelCount: the except clause does not set task_name, and
\* names the entry as the failure recorded before it.
ParallelCount_StaleName(acc, o, cfg) ==
    IF o.kind = "return"
       THEN IF o.success
               THEN [acc EXCEPT !.s = @ + 1]
               ELSE [acc EXCEPT !.f = @ + 1,
                                !.d = Append(@, [task_name |-> o.task_name,
                                                 error |-> o.error])]
       ELSE [acc EXCEPT !.f = @ + 1,
                        !.d = Append(@, [task_name |-> IF acc.d = <<>>
                                                          THEN ShortName(cfg)
                                                          ELSE Last(acc.d).task_name,
                                         error |-> o.error])]

\* The counters after one future, in the loop of run_tasks_parallel.
ParallelCount(acc, o, cfg) ==
    IF o.kind = "return"
       THEN IF o.success
               THEN [acc EXCEPT !.s = @ + 1]
               ELSE [acc EXCEPT !.f = @ + 1,
                                !.d = Append(@, [task_name |-> o.task_name,
                                                 error |-> o.error])]
       ELSE [acc EXCEPT !.f = @ + 1,
                        !.d = Append(@, [task_name |-> ShortName(cfg),
                                         error |-> o.error])]

\* The futures as_completed can yield next.
Yieldable ==
    IF first_batch # {} THEN first_batch
    ELSE IF completed # <<>> THEN {Head(completed)}
    ELSE {}

\* One iteration of "for future in as_completed(future_to_task)".
Collect(t) ==
    /\ pc = "collect"
    /\ t \in Yieldable
    /\ LET a == ParallelCount(Acc, outcome[t], tasks[t])
       IN  /\ successful_tasks' = a.s
           /\ failed_tasks' = a.f
           /\ failed_task_details' = a.d
    /\ order' = Append(order, t)
    /\ IF first_batch # {}
          THEN /\ first_batch' = first_batch \ {t}
               /\ completed' = completed
          ELSE /\ first_batch' = first_batch
               /\ completed' = Tail(completed)
    /\ pc' = IF Len(order) + 1 = N THEN "summary" ELSE pc
    /\ UNCHANGED <<sequential, max_workers, tasks, beh, written, i, st, proc,
                   elapsed, outcome, results, prev_run,
                   gatherVars, loaderVars, evalVars, poolVars, parseVars>>

(***************************************************************************)
(* main after the run.                                                     *)
(***************************************************************************)
\* The summary record, written to execution_results.json.
WriteSummary ==
    /\ pc = "summary"
    /\ results' = [pc |-> "written",
                   total_tasks |-> Len(tasks),
                   successful_tasks |-> successful_tasks,
                   failed_tasks |-> failed_tasks,
                   failed_task_details |-> failed_task_details,
                   execution_mode |-> IF sequential THEN <<"sequential">>
                                      ELSE <<"parallel", max_workers, "workers">>]
    /\ written' = Append(written, "execution_results.json")
    /\ pc' = "done"
    /\ UNCHANGED <<sequential, max_workers, tasks, beh, i, st, proc, elapsed,
                   outcome, first_batch, completed, order, successful_tasks,
                   failed_tasks, failed_task_details, prev_run,
                   gatherVars, loaderVars, evalVars, poolVars, parseVars>>

(***************************************************************************)
(* Time.  The steps of the host take no time against the ceiling: the      *)
(* clock advances only when main and every worker wait for a process.      *)
(***************************************************************************)
MainWaits ==
    \/ pc = "seq" /\ i <= N /\ st[i] = "running"
    \/ pc = "collect" /\ Yieldable = {}

WorkersWait == \A t \in Tasks : ~CanStart(t)

Tick ==
    /\ Running # {}
    /\ MainWaits
    /\ WorkersWait
    /\ \A t \in Running :
          /\ beh[t] \in {"slow0", "hang"}
          /\ ~AtCeiling(t)
          /\ beh[t] = "slow0" => elapsed[t] + TickLen < TIMEOUT
    /\ elapsed' = [t \in Tasks |->
                      IF t \in Running THEN Min(elapsed[t] + TickLen, TIMEOUT)
                      ELSE elapsed[t]]
    /\ UNCHANGED <<sequential, max_workers, tasks, beh, pc, written, i, st, proc,
                   outcome, first_batch, completed, order, successful_tasks,
                   failed_tasks, failed_task_details, results, prev_run,
                   gatherVars, loaderVars, evalVars, poolVars, parseVars>>

(***************************************************************************)
(* The runner is invoked again on the same dataset, in the other mode.     *)
(***************************************************************************)
Reinvoke ==
    /\ Terminal
    /\ prev_run = NoRun
    /\ prev_run' = [pc |-> pc, sequential |-> sequential, results |-> results,
                    order |-> order]
    /\ sequential' = ~sequential
    /\ pc' = "start"
    /\ written' = <<>>
    /\ i' = 1
    /\ st' = [k \in Tasks |-> "new"]
    /\ proc' = [k \in Tasks |-> "none"]
    /\ elapsed' = [k \in Tasks |-> 0]
    /\ outcome' = [k \in Tasks |-> NoOutcome]
    /\ first_batch' = {}
    /\ completed' = <<>>
    /\ order' = <<>>
    /\ successful_tasks' = 0
    /\ failed_tasks' = 0
    /\ failed_task_details' = <<>>
    /\ results' = NoRun
    /\ UNCHANGED <<max_workers, tasks, beh,
                   gatherVars, loaderVars, evalVars, poolVars, parseVars>>

(***************************************************************************)
(* evaluators/autopresent/gather.py                                        *)
(***************************************************************************)
\* The environment holds one item with up to MaxPresent round directories,
\* or up to MaxItems items with up to MaxPresentEach round directories each.
MaxItems == 2
MaxPresent == 3
MaxPresentEach == 1

OneItem == [items |-> 1, present |-> MaxPresent, rich |-> FALSE]

ManyItems == [items |-> MaxItems, present |-> MaxPresentEach, rich |-> FALSE]

\* One item with one round directory, whose reports take the extreme values.
RichItem == [items |-> 1, present |-> 1, rich |-> TRUE]

\* range(1, 11)
ROUNDS == 10

AllNames == <<"art_photos", "business", "design", "entrepreneur", "environment",
              "food", "marketing", "social_media", "technology">>

\* names of gather_results.
Names(sn) == IF sn = "all" THEN AllNames ELSE <<sn>>

RefKeys == {"match", "text", "color", "position"}

FreeKeys == {"text", "image", "layout", "color"}

\* {'match': 0, 'text': 0, 'color': 0, 'position': 0}
ZeroRef == [k \in RefKeys |-> 0]

\* {'text': 0, 'image': 0, 'layout': 0, 'color': 0}
ZeroFree == [k \in FreeKeys |-> 0]

\* None
NoEval == [none |-> TRUE]

NoRound == 0

\* A line of ref_based.txt: the metric names it contains as substrings, and
\* float(result.split(': ')[1]).
Line(has, val) == [has |-> has, val |-> val]

\* The text after the last newline of the file.
EmptyLine == Line({}, 0)

\* ref_based.txt as page_eval.py writes it.
BasedFile(m, t, c, p) ==
    [exists |-> TRUE,
     lines |-> <<Line({"match"}, m), Line({"text"}, t), Line({"color"}, c),
                 Line({"position"}, p), EmptyLine>>]

\* ref_free.json as reference_free_eval.py writes it.
FreeFile(t, im, l, c) ==
    [exists |-> TRUE,
     json |-> [text |-> [score |-> t], image |-> [score |-> im],
               layout |-> [score |-> l], color |-> [score |-> c]]]

\* The two files when they are not there.
NoBased == [exists |-> FALSE, lines |-> <<>>]

NoFree == [exists |-> FALSE,
           json |-> [text |-> [score |-> 0], image |-> [score |-> 0],
                     layout |-> [score |-> 0], color |-> [score |-> 0]]]

\* What a round directory of an item can hold.
Round(dir, based, free) == [dir |-> dir, based |-> based, free |-> free]

AbsentRound == Round(FALSE, NoBased, NoFree)

\* Reports with composite scores 0, 70, 85 and 85.
Based0 == BasedFile(0, 0, 0, 0)
Free0 == FreeFile(0, 0, 0, 0)
Based70 == BasedFile(60, 60, 80, 80)
Free70 == FreeFile(4, 3, 4, 3)
Based85 == BasedFile(90, 90, 90, 90)
Free85 == FreeFile(4, 4, 4, 4)

PresentRounds ==
    { Round(TRUE, Based85, NoFree),
      Round(TRUE, NoBased, Free85),
      Round(TRUE, Based0, Free0),
      Round(TRUE, Based70, Free70),
      Round(TRUE, Based85, Free85) }

\* The ends of the scale of a reference-based metric and of a reference-free
\* score, as the two scorers report them.
MetricValues == {0, 100}

ScoreValues == {0, 5}

\* The complete rounds whose 8 values are at the ends of their scales.
RichRounds ==
    { Round(TRUE, BasedFile(v[1], v[2], v[3], v[4]), FreeFile(w[1], w[2], w[3], w[4])) :
        v \in [1..4 -> MetricValues], w \in [1..4 -> ScoreValues] }

\* What the environment can put in a round directory.
RoundsOn(c) == IF c.rich THEN RichRounds ELSE PresentRounds

\* Mutant of Complete: one report is enough, the other reads as zeros.
Complete_Either(r) == r.dir /\ (r.based.exists \/ r.free.exists)

\* os.path.exists(ref_eval_path) and os.path.exists(ref_free_eval_path)
Complete(r) == r.dir /\ r.based.exists /\ r.free.exists

\* Mutant of ParseRefBasedFrom: a line sets every metric it names.
RECURSIVE ParseRefBasedFrom_AllNames(_, _, _)
ParseRefBasedFrom_AllNames(lines, k, acc) ==
    IF k > Len(lines) THEN acc
    ELSE ParseRefBasedFrom_AllNames(lines, k + 1,
             [m \in RefKeys |-> IF m \in lines[k].has THEN lines[k].val ELSE acc[m]])

\* The loop over the lines of ref_based.txt, from line k on.
RECURSIVE ParseRefBasedFrom(_, _, _)
ParseRefBasedFrom(lines, k, acc) ==
    IF k > Len(lines) THEN acc
    ELSE LET l == lines[k]
             acc2 == IF "match" \in l.has THEN [acc EXCEPT !["match"] = l.val]
                     ELSE IF "text" \in l.has THEN [acc EXCEPT !["text"] = l.val]
                     ELSE IF "color" \in l.has THEN [acc EXCEPT !["color"] = l.val]
                     ELSE IF "position" \in l.has THEN [acc EXCEPT !["position"] = l.val]
                     ELSE acc
         IN  ParseRefBasedFrom(lines, k + 1, acc2)

\* round_ref_eval after reading ref_based.txt.
ParseRefBased(lines) == ParseRefBasedFrom(lines, 1, ZeroRef)

MaxLines == 2

\* The numbers a line of the report can carry.
LineValues == {30, 60}

\* The lines of a report: any of the 4 metric names can occur in a line,
\* alone, together or not at all.
ReportLines == {Line(h, v) : h \in SUBSET RefKeys, v \in LineValues}

\* The reports of up to MaxLines lines.
Reports == UNION {[1..n -> ReportLines] : n \in 0..MaxLines}

ParseStart(lines) ==
    /\ ref_eval_lines = lines
    /\ parse_pc = "start"
    /\ round_ref_eval = ZeroRef

\* round_ref_eval = {...: 0}, then the loop over ref_eval_lines.
ParseReport ==
    /\ parse_pc = "start"
    /\ round_ref_eval' = ParseRefBased(ref_eval_lines)
    /\ parse_pc' = "parsed"
    /\ UNCHANGED <<ref_eval_lines, runnerVars, gatherVars, loaderVars, evalVars,
                   poolVars>>

\* No report is being parsed on its own.
ParseIdle ==
    /\ ref_eval_lines = <<>>
    /\ parse_pc = "idle"
    /\ round_ref_eval = ZeroRef

\* Mutant of ParseRefFree: the scores are taken as they are, on their 0-5 scale.
ParseRefFree_Unscaled(json) == [k \in FreeKeys |-> json[k].score]

\* round_ref_free_eval after reading ref_free.json.
ParseRefFree(json) == [k \in FreeKeys |-> json[k].score * 20]

SumRef(e) == e["match"] + e["text"] + e["color"] + e["position"]

SumFree(e) == e["text"] + e["image"] + e["layout"] + e["color"]

\* 8 * round_score: round_score is the sum of the 8 fields divided by 8.
RoundScore8(re, rf) == SumRef(re) + SumFree(rf)

\* Mutant of InitialBestScore: best_round_score = 0.
InitialBestScore_Zero == 8 * 0

\* best_round_score = -1, in eighths.
InitialBestScore == -8

\* round_score of a complete round r.
RoundScoreOf(r) == RoundScore8(ParseRefBased(r.based.lines), ParseRefFree(r.free.json))

\* round_score before the first round is parsed, and after.
NoScore == [set |-> FALSE, v |-> 0]

Score(v) == [set |-> TRUE, v |-> v]

\* Mutant of Better: a later round wins a tie.
Better_OrEqual(score, best) == score >= best

\* if round_score > best_round_score
Better(score, best) == score > best

\* The four best_round_* variables.
Best == [score |-> best_round_score, ref |-> best_round_ref_eval,
         free |-> best_round_ref_free_eval, num |-> best_round_num]

\* One iteration of "for round_num in range(1, 11)" on round directory r.
ScanStep(best, n, r) ==
    IF ~r.dir THEN best
    ELSE IF ~Complete(r) THEN best
    ELSE LET re == ParseRefBased(r.based.lines)
             rf == ParseRefFree(r.free.json)
             score == RoundScoreOf(r)
         IN  IF Better(score, best.score)
                THEN [score |-> score, ref |-> re, free |-> rf, num |-> n]
                ELSE best

\* The files one iteration opens.
ScanOpens(n, r) ==
    IF Complete(r) THEN {<<n, "ref_based.txt">>, <<n, "ref_free.json">>} ELSE {}

\* x / d
Div(x, d) == <<x, d>>

GatherStart(sn, c) ==
    /\ slide_name = sn
    /\ caps = c
    /\ g_pc = "names"
    /\ name_i = 1
    /\ pages_num = 0
    /\ slide_num = 0
    /\ round_num = 0
    /\ disk = <<>>
    /\ opened = {}
    /\ best_round_score = InitialBestScore
    /\ best_round_ref_eval = NoEval
    /\ best_round_ref_free_eval = NoEval
    /\ best_round_num = NoRound
    /\ ref_eval_result = ZeroRef
    /\ ref_free_eval_result = ZeroFree
    /\ fail_num = 0
    /\ total_num = 0
    /\ overall_score = Div(0, 1)
    /\ history = <<>>
    /\ round_score = NoScore

\* The categories whose reference deck the environment may hold.
DeckNames == {"business"}

\* for name in names: the deck is missing, or it has p slides.
NextName ==
    /\ g_pc = "names"
    /\ name_i <= Len(Names(slide_name))
    /\ \E p \in -1..(caps.items - total_num) :
          /\ p >= 0 => Names(slide_name)[name_i] \in DeckNames
          /\ IF p <= 0
                THEN /\ name_i' = name_i + 1
                     /\ UNCHANGED <<g_pc, pages_num, slide_num>>
                ELSE /\ pages_num' = p
                     /\ slide_num' = 1
                     /\ g_pc' = "slide"
                     /\ name_i' = name_i
    /\ UNCHANGED <<slide_name, round_num, disk, opened, best_round_score,
                   best_round_ref_eval, best_round_ref_free_eval, best_round_num,
                   ref_eval_result, ref_free_eval_result, fail_num, total_num,
                   overall_score, caps, history, round_score, runnerVars, loaderVars,
                   evalVars, poolVars, parseVars>>

\* for slide_num in range(1, pages_num + 1): the next slide, or the end of
\* the category.
NextSlide ==
    /\ g_pc = "slide"
    /\ IF slide_num > pages_num
          THEN /\ g_pc' = "names"
               /\ name_i' = name_i + 1
               /\ UNCHANGED <<round_num, disk, opened, best_round_score,
                              best_round_ref_eval, best_round_ref_free_eval,
                              best_round_num>>
          ELSE /\ g_pc' = "rounds"
               /\ name_i' = name_i
               /\ round_num' = 1
               /\ disk' = <<>>
               /\ opened' = {}
               /\ best_round_score' = InitialBestScore
               /\ best_round_ref_eval' = NoEval
               /\ best_round_ref_free_eval' = NoEval
               /\ best_round_num' = NoRound
    /\ UNCHANGED <<slide_name, pages_num, slide_num, ref_eval_result,
                   ref_free_eval_result, fail_num, total_num, overall_score,
                   caps, history, round_score, runnerVars, loaderVars, evalVars, poolVars, parseVars>>

\* The round directories the environment has put down so far.
Present == {k \in 1..Len(disk) : disk[k].dir}

\* One iteration of the loop over the rounds, on what the disk holds there.
ScanRound ==
    /\ g_pc = "rounds"
    /\ round_num <= ROUNDS
    /\ \E r \in {AbsentRound} \cup RoundsOn(caps) :
          /\ r.dir => Cardinality(Present) < caps.present
          /\ disk' = Append(disk, r)
          /\ round_score' = IF Complete(r) THEN Score(RoundScoreOf(r)) ELSE round_score
          /\ opened' = opened \cup ScanOpens(round_num, r)
          /\ LET b == ScanStep(Best, round_num, r)
             IN  /\ best_round_score' = b.score
                 /\ best_round_ref_eval' = b.ref
                 /\ best_round_ref_free_eval' = b.free
                 /\ best_round_num' = b.num
    /\ round_num' = round_num + 1
    /\ UNCHANGED <<slide_name, g_pc, name_i, pages_num, slide_num,
                   ref_eval_result, ref_free_eval_result, fail_num, total_num,
                   overall_score, caps, history, runnerVars, loaderVars,
                   evalVars, poolVars, parseVars>>

\* The running sums after an item.
AddBest(sums, best) == [k \in DOMAIN sums |-> sums[k] + best[k]]

\* Whether the item has a best round.
Found(num) == num # NoRound

\* The files read when the item has no best round.
FallbackOpens == {}

\* After the rounds of an item: the best round is added, or the item fails.
FinishItem ==
    /\ g_pc = "rounds"
    /\ round_num > ROUNDS
    /\ IF Found(best_round_num)
          THEN /\ ref_eval_result' = AddBest(ref_eval_result, best_round_ref_eval)
               /\ ref_free_eval_result' =
                     AddBest(ref_free_eval_result, best_round_ref_free_eval)
               /\ fail_num' = fail_num
               /\ opened' = opened
          ELSE /\ fail_num' = fail_num + 1
               /\ opened' = opened \cup FallbackOpens
               /\ UNCHANGED <<ref_eval_result, ref_free_eval_result>>
    /\ disk' = <<>>
    /\ total_num' = total_num + 1
    /\ history' = Append(history, Found(best_round_num))
    /\ slide_num' = slide_num + 1
    /\ g_pc' = "slide"
    /\ UNCHANGED <<slide_name, name_i, pages_num, round_num,
                   best_round_score, best_round_ref_eval,
                   best_round_ref_free_eval, best_round_num, overall_score,
                   caps, round_score, runnerVars, loaderVars, evalVars, poolVars, parseVars>>

\* Mutant of Denominator: the failed items are left out.
Denominator_Succeeded == total_num - fail_num

\* The denominator of the averages.
Denominator == total_num

\* After the loop over the categories: the averages, the success rate and
\* the overall score.
Averages ==
    /\ g_pc = "names"
    /\ name_i > Len(Names(slide_name))
    /\ IF total_num > 0
          THEN /\ ref_eval_result' =
                     [k \in RefKeys |-> Div(ref_eval_result[k], Denominator)]
               /\ ref_free_eval_result' =
                     [k \in FreeKeys |-> Div(ref_free_eval_result[k], Denominator)]
               /\ overall_score' =
                     Div(Div(SumRef(ref_eval_result) + SumFree(ref_free_eval_result),
                             Denominator), 8)
               /\ g_pc' = "done"
          ELSE /\ g_pc' = "crashed"
               /\ UNCHANGED <<ref_eval_result, ref_free_eval_result, overall_score>>
    /\ UNCHANGED <<slide_name, name_i, pages_num, slide_num, round_num, disk,
                   opened, best_round_score, best_round_ref_eval,
                   best_round_ref_free_eval, best_round_num, fail_num, total_num,
                   caps, history, round_score, runnerVars, loaderVars, evalVars, poolVars, parseVars>>

(***************************************************************************)
(* runners/autopresent.py: load_autopresent_dataset and the start of main. *)
(***************************************************************************)
\* The most entries a category directory of the environment holds.
MaxEntries == 2

\* The item identifiers of the environment.
ItemIds == {"1", "2"}

\* task_id is None
None == <<>>

\* The name "<stem>_<id>" of an entry of a category directory.
DirName(stem, id) == <<stem, id>>

\* The names the environment gives to entries.
EntryNames == {DirName(stem, id) : stem \in {"slide", "slides"}, id \in ItemIds}

\* The files of a task directory the loader looks at.
TaskFiles == {"start.py", "start.jpg", "instruction.txt"}

\* An entry of a category directory, with the files it holds.
Entry(name, has) == [name |-> name, has |-> has]

Entries == {Entry(n, h) : n \in EntryNames, h \in SUBSET TaskFiles}

\* The listings of a category directory, in the order the file system
\* enumerates them: no two entries have the same name.
EntrySeqs ==
    {es \in UNION {[1..n -> Entries] : n \in 0..MaxEntries} :
        \A a, b \in 1..Len(es) : es[a].name = es[b].name => a = b}

\* The categories the environment may hold a directory for.
DatasetCats == {"business", "food"}

NoCat == [exists |-> FALSE, entries |-> <<>>]

Cat(es) == [exists |-> TRUE, entries |-> es]

NoDataset == [exists |-> FALSE, cats |-> [c \in DatasetCats |-> NoCat]]

Datasets ==
    {NoDataset} \cup
    { [exists |-> TRUE, cats |-> [c \in DatasetCats |-> IF c = "business" THEN b ELSE f]] :
        b \in {NoCat} \cup {Cat(es) : es \in EntrySeqs},
        f \in {NoCat, Cat(<<Entry(DirName("slide", "1"), TaskFiles)>>)} }

\* The entries of <base_path>/<cat>, none when the directory is missing.
Listing(ds, cat) ==
    IF cat \in DOMAIN ds.cats /\ ds.cats[cat].exists
       THEN ds.cats[cat].entries
       ELSE <<>>

\* The files of <base_path>/<cat>/<name>, none when it does not exist.
FilesAt(ds, cat, name) ==
    LET es == Listing(ds, cat)
        at == {k \in 1..Len(es) : es[k].name = name}
    IN  IF at = {} THEN {} ELSE es[CHOOSE k \in at : TRUE].has

\* task_list
TaskList(tn) == IF tn = "all" THEN AllNames ELSE <<tn>>

\* Whether a name matches the pattern "slide_*".
GlobSlide(name) == name[1] = "slide"

\* A candidate (task_dir, task_name).
Candidate(cat, name) == [cat |-> cat, name |-> name]

\* current_path.glob("slide_*") of one category, as candidates.
GlobCat(ds, cat) ==
    LET es == SelectSeq(Listing(ds, cat), LAMBDA e : GlobSlide(e.name))
    IN  [k \in 1..Len(es) |-> Candidate(cat, es[k].name)]

\* The loop over task_list, from its k-th category on.
RECURSIVE ScanFrom(_, _, _)
ScanFrom(ds, list, k) ==
    IF k > Len(list) THEN <<>>
    ELSE GlobCat(ds, list[k]) \o ScanFrom(ds, list, k + 1)

\* task_dirs
TaskDirs(ds, tn, tid) ==
    IF tid # None
       THEN <<Candidate(tn, DirName("slides", tid[1]))>>
       ELSE ScanFrom(ds, TaskList(tn), 1)

\* Mutant of Accepted: the start image is required too.
Accepted_NeedsImage(has) == {"start.py", "start.jpg", "instruction.txt"} \subseteq has

\* The two checks for required files.
Accepted(has) == "start.py" \in has /\ "instruction.txt" \in has

\* task_config
TaskConfig(c) ==
    [task_name |-> c.cat,
     task_dir |-> <<"data", c.cat, c.name>>,
     init_code_path |-> <<"data", c.cat, c.name, "start.py">>,
     init_image_path |-> <<"data", c.cat, c.name, "start.jpg">>,
     target_description_path |-> <<"data", c.cat, c.name, "instruction.txt">>]

\* load_autopresent_dataset(base_path, task_name, task_id)
load_autopresent_dataset(ds, tn, tid) ==
    IF ~ds.exists THEN <<>>
    ELSE LET ok == SelectSeq(TaskDirs(ds, tn, tid),
                             LAMBDA c : Accepted(FilesAt(ds, c.cat, c.name)))
         IN  [k \in 1..Len(ok) |-> TaskConfig(ok[k])]

LoadStart(ds, tn, tid) ==
    /\ dataset = ds
    /\ task = tn
    /\ task_id = tid
    /\ l_pc = "load"
    /\ loaded = <<>>

\* tasks = load_autopresent_dataset(args.dataset_path, args.task, args.task_id)
MainLoad ==
    /\ l_pc = "load"
    /\ loaded' = load_autopresent_dataset(dataset, task, task_id)
    /\ l_pc' = "loaded"
    /\ UNCHANGED <<dataset, task, task_id, runnerVars, gatherVars, evalVars, poolVars, parseVars>>

\* The two checks of main on the task list, and the filter between them.
MainCheck ==
    /\ l_pc = "loaded"
    /\ IF loaded = <<>>
          THEN /\ l_pc' = "exit1"
               /\ loaded' = loaded
          ELSE LET kept == IF task # "all"
                              THEN SelectSeq(loaded, LAMBDA t : t.task_name = task)
                              ELSE loaded
               IN  /\ loaded' = kept
                   /\ l_pc' = IF kept = <<>> THEN "exit1" ELSE "run"
    /\ UNCHANGED <<dataset, task, task_id, runnerVars, gatherVars, evalVars, poolVars, parseVars>>

\* The loader does not run.
LoaderIdle ==
    /\ dataset = NoDataset
    /\ task = "all"
    /\ task_id = None
    /\ l_pc = "idle"
    /\ loaded = <<>>

(***************************************************************************)
(* evaluators/autopresent/evaluate.py: evaluate_single_slide               *)
(***************************************************************************)
\* The most entries the item's output directory of the environment holds.
MaxDirs == 2

Digits == {"0", "1", "2", "3", "4", "5", "6", "7", "8", "9"}

\* int(c) of one digit.
DigitValue(c) ==
    CASE c = "0" -> 0 [] c = "1" -> 1 [] c = "2" -> 2 [] c = "3" -> 3
      [] c = "4" -> 4 [] c = "5" -> 5 [] c = "6" -> 6 [] c = "7" -> 7
      [] c = "8" -> 8 [] c = "9" -> 9

\* file.isdigit(): a name is the sequence of its characters.
IsDigit(name) == name # <<>> /\ \A k \in 1..Len(name) : name[k] \in Digits

\* int(x)
RECURSIVE IntOf(_)
IntOf(name) ==
    IF name = <<>> THEN 0
    ELSE 10 * IntOf(SubSeq(name, 1, Len(name) - 1)) + DigitValue(name[Len(name)])

\* The names of the entries of the item's output directory: "1", "2", "10"
\* and "logs".
RoundNames == {<<"1">>, <<"2">>, <<"1", "0">>, <<"l", "o", "g", "s">>}

\* The files of a round directory the dispatcher and the aggregator name.
RoundFiles == {"refine.pptx", "refine.jpg", "ref_based.txt", "ref_free.txt",
               "ref_free.json"}

\* A round directory: per file, whether it is absent, was there before the
\* dispatcher ran ("old") or was written by a scorer it launched ("new").
RoundDir(pptx, jpg, based, free) ==
    [f \in RoundFiles |->
        IF f = "refine.pptx" THEN pptx
        ELSE IF f = "refine.jpg" THEN jpg
        ELSE IF f = "ref_based.txt" THEN based
        ELSE IF f = free THEN "old"
        ELSE "absent"]

\* The round directories of the environment: with or without the generated
\* artifact, its preview, and reports left by earlier scoring.
RoundDirs ==
    {RoundDir(pptx, jpg, based, free) :
        pptx \in {"absent", "old"}, jpg \in {"absent", "old"},
        based \in {"absent", "old"},
        free \in {"none", "ref_free.txt", "ref_free.json"}}

NoRefinePath == [exists |-> FALSE, dirs |-> <<>>]

\* The item's output directory: missing, or holding up to MaxDirs entries.
RefinePaths ==
    {NoRefinePath} \cup
    { [exists |-> TRUE, dirs |-> d] :
        d \in UNION {[ns -> RoundDirs] :
                        ns \in {x \in SUBSET RoundNames : Cardinality(x) <= MaxDirs}} }

\* sorted(files, key=lambda x: int(x), reverse=True), on names with
\* different numbers.
RECURSIVE SortedDescending(_)
SortedDescending(names) ==
    IF names = {} THEN <<>>
    ELSE LET top == CHOOSE n \in names : \A m \in names : IntOf(m) <= IntOf(n)
         IN  <<top>> \o SortedDescending(names \ {top})

\* The scorer programs.
PageEval == "evaluators/autopresent/page_eval.py"

ReferenceFreeEval == "evaluators/autopresent/reference_free_eval.py"

\* The report paths the dispatcher hands to the two scorers.
EvalRefEvalFile == "ref_based.txt"

EvalRefFreeEvalFile == "ref_free.txt"

\* subprocess.Popen(command): one scorer process launched on a round.
Call(scorer, round, output) == [scorer |-> scorer, round |-> round, output |-> output]

\* Mutant of HasArtifact: a round that has its report is not scored again.
HasArtifact_IfNeeded(d) == d["refine.pptx"] # "absent" /\ d["ref_based.txt"] = "absent"

\* os.path.exists(pptx_path)
HasArtifact(d) == d["refine.pptx"] # "absent"

\* os.path.exists(jpg_path)
HasPreview(d) == d["refine.jpg"] # "absent"

\* subprocess.Popen(command): the launched process is the next of the item.
Popen(a, cs) == a \cup {Len(cs) + 1}

\* Mutant of Wait: the dispatcher goes on without waiting for the process.
Wait_NoWait(a, p) == a

\* process.wait(): returns when process p has ended.
Wait(a, p) == a \ {p}

\* A scorer writes its report to the output path it was given.
ScorerWrites(rp, round, output) ==
    [rp EXCEPT !.dirs[round][output] = "new"]

EvalStart(rp) ==
    /\ refine_path = rp
    /\ e_pc = "start"
    /\ files = <<>>
    /\ file = <<>>
    /\ calls = <<>>
    /\ alive = {}

\* os.listdir(refine_path), the isdigit filter and the sort; a missing
\* directory ends the evaluation of the item.
EvalListdir ==
    /\ e_pc = "start"
    /\ IF refine_path.exists
          THEN /\ files' = SortedDescending({n \in DOMAIN refine_path.dirs : IsDigit(n)})
               /\ e_pc' = "loop"
          ELSE /\ files' = files
               /\ e_pc' = "done"
    /\ UNCHANGED <<refine_path, file, calls, alive, runnerVars, gatherVars, loaderVars, poolVars, parseVars>>

\* for file in files: a round without refine.pptx is passed over; on a round
\* with it the reference-based scorer is launched.
EvalNextFile ==
    /\ e_pc = "loop"
    /\ IF files = <<>>
          THEN /\ e_pc' = "done"
               /\ UNCHANGED <<files, file, calls, alive>>
          ELSE /\ file' = Head(files)
               /\ files' = Tail(files)
               /\ IF HasArtifact(refine_path.dirs[Head(files)])
                     THEN /\ calls' = Append(calls, Call(PageEval, Head(files),
                                                         EvalRefEvalFile))
                          /\ alive' = Popen(alive, calls)
                          /\ e_pc' = "wait_ref_based"
                     ELSE /\ calls' = calls
                          /\ alive' = alive
                          /\ e_pc' = "loop"
    /\ UNCHANGED <<refine_path, runnerVars, gatherVars, loaderVars, poolVars, parseVars>>

\* The reference-based scorer ends: process.wait() returns.
RefBasedExit ==
    /\ e_pc = "wait_ref_based"
    /\ refine_path' = ScorerWrites(refine_path, file, Last(calls).output)
    /\ alive' = Wait(alive, Len(calls))
    /\ e_pc' = "ref_free"
    /\ UNCHANGED <<files, file, calls, runnerVars, gatherVars, loaderVars, poolVars, parseVars>>

\* if os.path.exists(jpg_path): the reference-free scorer is launched.
RefFreeLaunch ==
    /\ e_pc = "ref_free"
    /\ IF HasPreview(refine_path.dirs[file])
          THEN /\ calls' = Append(calls, Call(ReferenceFreeEval, file,
                                              EvalRefFreeEvalFile))
               /\ alive' = Popen(alive, calls)
               /\ e_pc' = "wait_ref_free"
          ELSE /\ calls' = calls
               /\ alive' = alive
               /\ e_pc' = "loop"
    /\ UNCHANGED <<refine_path, files, file, runnerVars, gatherVars, loaderVars, poolVars, parseVars>>

\* The reference-free scorer ends: process.wait() returns.
RefFreeExit ==
    /\ e_pc = "wait_ref_free"
    /\ refine_path' = ScorerWrites(refine_path, file, Last(calls).output)
    /\ alive' = Wait(alive, Len(calls))
    /\ e_pc' = "loop"
    /\ UNCHANGED <<files, file, calls, runnerVars, gatherVars, loaderVars, poolVars, parseVars>>

\* The dispatcher does not run.
EvalIdle ==
    /\ refine_path = NoRefinePath
    /\ e_pc = "idle"
    /\ files = <<>>
    /\ file = <<>>
    /\ calls = <<>>
    /\ alive = {}

(***************************************************************************)
(* evaluators/autopresent/evaluate.py: main, one category                  *)
(***************************************************************************)
MaxListed == 3
MaxPoolWorkers == 2

\* An entry of the category's output directory: its name is stem, then the
\* parts that follow each "_", each a sequence of characters; dot tells
\* whether the name holds a ".".
Listed(stem, rest, dot) == [stem |-> stem, rest |-> rest, dot |-> dot]

\* slide_1, slide_2, slide_01, slide_1_old, slide_x, logs and summary.json.
ListedNames ==
    {Listed("slide", <<<<"1">>>>, FALSE),
     Listed("slide", <<<<"2">>>>, FALSE),
     Listed("slide", <<<<"0", "1">>>>, FALSE),
     Listed("slide", <<<<"1">>, <<"o", "l", "d">>>>, FALSE),
     Listed("slide", <<<<"x">>>>, FALSE),
     Listed("logs", <<>>, FALSE),
     Listed("summary.json", <<>>, TRUE)}

NoListing == [exists |-> FALSE, names |-> {}]

\* The category's output directory: missing, or holding up to MaxListed
\* entries.
Listings ==
    {NoListing} \cup
    {[exists |-> TRUE, names |-> ns] :
        ns \in {x \in SUBSET ListedNames : Cardinality(x) <= MaxListed}}

\* os.cpu_count(): None (0) or 2.
CpuCounts == {0, 2}

\* [slide_dir for slide_dir in slides_dirs if '.' not in slide_dir]
NoDot(names) == {e \in names : ~e.dot}

\* slide_dir.split("_")[1] raises IndexError on a name without "_".
SplitFails(e) == e.rest = <<>>

\* int(index) raises ValueError on a part that is not a number.
IntFails(e) == ~IsDigit(e.rest[1])

\* sorted([int(index) for index in index_list]): one number per entry, equal
\* numbers kept.
RECURSIVE SortedIndexes(_)
SortedIndexes(es) ==
    IF es = {} THEN <<>>
    ELSE LET e == CHOOSE x \in es :
                     \A y \in es : IntOf(x.rest[1]) <= IntOf(y.rest[1])
         IN  <<IntOf(e.rest[1])>> \o SortedIndexes(es \ {e})

\* str(index) inside f"slide_{index}"
RECURSIVE Str(_)
Str(n) ==
    LET d == CHOOSE c \in Digits : DigitValue(c) = n % 10
    IN  IF n < 10 THEN <<d>> ELSE Str(n \div 10) \o <<d>>

\* refine_path = Path(slide_dirs) / f"slide_{index}": the item directory a
\* call of evaluate_single_slide lists, reads and has its scorers write to.
RefinePathOf(index) == Listed("slide", <<Str(index)>>, FALSE)

\* args.max_workers if args.max_workers else min(8, (os.cpu_count() or 4))
PoolSize(a, cpu) ==
    IF a # 0 THEN a
    ELSE LET c == IF cpu # 0 THEN cpu ELSE 4
         IN  IF 8 < c THEN 8 ELSE c

\* A worker thread of the pool is free.
PoolMayStart(fs, a, cpu) ==
    Cardinality({k \in 1..Len(fs) : fs[k] = "running"}) < PoolSize(a, cpu)

PoolStart(ls, a, cpu) ==
    /\ slides_dirs = ls
    /\ arg_max_workers = a
    /\ cpu_count = cpu
    /\ m_pc = "start"
    /\ index_list = <<>>
    /\ futures = <<>>

\* os.listdir(slide_dirs), the filter and the two list comprehensions; an
\* exception of any of them ends main.
MainListdir ==
    /\ m_pc = "start"
    /\ IF \/ ~slides_dirs.exists
          \/ \E e \in NoDot(slides_dirs.names) : SplitFails(e)
          \/ \E e \in NoDot(slides_dirs.names) : IntFails(e)
          THEN /\ m_pc' = "crashed"
               /\ index_list' = index_list
          ELSE /\ index_list' = SortedIndexes(NoDot(slides_dirs.names))
               /\ m_pc' = "submit"
    /\ UNCHANGED <<slides_dirs, arg_max_workers, cpu_count, futures,
                   runnerVars, gatherVars, loaderVars, evalVars, parseVars>>

\* executor.submit(evaluate_single_slide, slide_dirs, index), for the next
\* index of index_list.
PoolSubmit ==
    /\ m_pc = "submit"
    /\ IF Len(futures) < Len(index_list)
          THEN /\ futures' = Append(futures, "pending")
               /\ m_pc' = m_pc
          ELSE /\ futures' = futures
               /\ m_pc' = "collect"
    /\ UNCHANGED <<slides_dirs, arg_max_workers, cpu_count, index_list,
                   runnerVars, gatherVars, loaderVars, evalVars, parseVars>>

\* A free worker thread takes the oldest pending call and enters
\* evaluate_single_slide.
PoolWorkerStart(j) ==
    /\ m_pc \in {"submit", "collect"}
    /\ j \in 1..Len(futures)
    /\ futures[j] = "pending"
    /\ \A k \in 1..(j - 1) : futures[k] # "pending"
    /\ PoolMayStart(futures, arg_max_workers, cpu_count)
    /\ futures' = [futures EXCEPT ![j] = "running"]
    /\ UNCHANGED <<slides_dirs, arg_max_workers, cpu_count, m_pc, index_list,
                   runnerVars, gatherVars, loaderVars, evalVars, parseVars>>

\* evaluate_single_slide returns or raises.
PoolWorkerDone(j) ==
    /\ j \in 1..Len(futures)
    /\ futures[j] = "running"
    /\ futures' = [futures EXCEPT ![j] = "done"]
    /\ UNCHANGED <<slides_dirs, arg_max_workers, cpu_count, m_pc, index_list,
                   runnerVars, gatherVars, loaderVars, evalVars, parseVars>>

\* The as_completed loop has seen every future and the with block is left.
PoolJoin ==
    /\ m_pc = "collect"
    /\ \A k \in 1..Len(futures) : futures[k] = "done"
    /\ m_pc' = "done"
    /\ UNCHANGED <<slides_dirs, arg_max_workers, cpu_count, index_list, futures,
                   runnerVars, gatherVars, loaderVars, evalVars, parseVars>>

\* main of evaluate.py does not run.
PoolIdle ==
    /\ slides_dirs = NoListing
    /\ arg_max_workers = 1
    /\ cpu_count = 0
    /\ m_pc = "idle"
    /\ index_list = <<>>
    /\ futures = <<>>

\* The runner does not run.
RunnerIdle ==
    /\ sequential = FALSE
    /\ max_workers = 1
    /\ tasks = <<>>
    /\ beh = <<>>
    /\ pc = "idle"
    /\ written = <<>>
    /\ i = 1
    /\ st = <<>>
    /\ proc = <<>>
    /\ elapsed = <<>>
    /\ outcome = <<>>
    /\ first_batch = {}
    /\ completed = <<>>
    /\ order = <<>>
    /\ successful_tasks = 0
    /\ failed_tasks = 0
    /\ failed_task_details = <<>>
    /\ results = NoRun
    /\ prev_run = NoRun

GatherInit ==
    /\ RunnerIdle
    /\ LoaderIdle
    /\ EvalIdle
    /\ PoolIdle
    /\ ParseIdle
    /\ \/ GatherStart("business", OneItem)
       \/ GatherStart("business", RichItem)
       \/ \E sn \in {"all", "business", "food"} : GatherStart(sn, ManyItems)

GatherNext ==
    \/ NextName
    \/ NextSlide
    \/ ScanRound
    \/ FinishItem
    \/ Averages

GatherSpec == GatherInit /\ [][GatherNext]_vars

Init ==
    /\ sequential \in BOOLEAN
    /\ max_workers \in 1..MaxWorkers
    /\ \E n \in 0..MaxTasks :
          /\ tasks = [k \in 1..n |-> TaskCfg(k)]
          /\ beh \in [1..n -> Behaviours]
          /\ st = [k \in 1..n |-> "new"]
          /\ proc = [k \in 1..n |-> "none"]
          /\ elapsed = [k \in 1..n |-> 0]
          /\ outcome = [k \in 1..n |-> NoOutcome]
    /\ pc = "start"
    /\ written = <<>>
    /\ i = 1
    /\ first_batch = {}
    /\ completed = <<>>
    /\ order = <<>>
    /\ successful_tasks = 0
    /\ failed_tasks = 0
    /\ failed_task_details = <<>>
    /\ results = NoRun
    /\ prev_run = NoRun
    /\ GatherStart("all", ManyItems)
    /\ LoaderIdle
    /\ EvalIdle
    /\ PoolIdle
    /\ ParseIdle

Next ==
    \/ MainSetup
    \/ SeqStart
    \/ SeqRecord
    \/ Submit
    \/ \E t \in Tasks : WorkerStart(t)
    \/ AsCompleted
    \/ \E t \in Tasks : Collect(t)
    \/ \E t \in Tasks : ProcExit(t)
    \/ \E t \in Tasks : TimeoutExpired(t)
    \/ WriteSummary
    \/ Tick
    \/ Reinvoke

Spec == Init /\ [][Next]_vars

\* The loader and the start of main, on every dataset of the environment.
LoadInit ==
    /\ RunnerIdle
    /\ GatherStart("all", ManyItems)
    /\ EvalIdle
    /\ PoolIdle
    /\ ParseIdle
    /\ \E ds \in Datasets, tn \in {"all", "business", "food"},
          tid \in {None} \cup {<<k>> : k \in ItemIds} :
          LoadStart(ds, tn, tid)

LoadNext ==
    \/ MainLoad
    \/ MainCheck

LoadSpec == LoadInit /\ [][LoadNext]_vars

\* The evaluation dispatcher on one item.
EvalInit ==
    /\ RunnerIdle
    /\ GatherStart("all", ManyItems)
    /\ LoaderIdle
    /\ PoolIdle
    /\ ParseIdle
    /\ \E rp \in RefinePaths : EvalStart(rp)

EvalNext ==
    \/ EvalListdir
    \/ EvalNextFile
    \/ RefBasedExit
    \/ RefFreeLaunch
    \/ RefFreeExit

EvalSpec == EvalInit /\ [][EvalNext]_vars

\* main of the evaluation dispatcher on one category.
PoolInit ==
    /\ RunnerIdle
    /\ GatherStart("all", ManyItems)
    /\ LoaderIdle
    /\ EvalIdle
    /\ ParseIdle
    /\ \E ls \in Listings, a \in 0..MaxPoolWorkers, cpu \in CpuCounts :
          PoolStart(ls, a, cpu)

PoolNext ==
    \/ MainListdir
    \/ PoolSubmit
    \/ \E j \in 1..MaxListed : PoolWorkerStart(j)
    \/ \E j \in 1..MaxListed : PoolWorkerDone(j)
    \/ PoolJoin

PoolSpec == PoolInit /\ [][PoolNext]_vars

\* The parse of one reference-based report, on every report of the
\* environment.
ParseInit ==
    /\ RunnerIdle
    /\ GatherStart("all", ManyItems)
    /\ LoaderIdle
    /\ EvalIdle
    /\ PoolIdle
    /\ \E lines \in Reports : ParseStart(lines)

ParseNext ==
    \/ ParseReport

ParseSpec == ParseInit /\ [][ParseNext]_vars

(***************************************************************************)
(* Properties of the runner.                                               *)
(***************************************************************************)
Collected == Range(order)

\* The tasks whose process takes time, and the others.
Slow == {t \in Tasks : beh[t] \in {"slow0", "hang"}}

Quick == Tasks \ Slow

\* The class of a returned outcome, read from the tuple alone.
ClassOf(o) ==
    IF o.success THEN "Success"
    ELSE IF o.error = "Timeout" THEN "Timeout"
    ELSE IF o.error = CalledProcessErrorMsg THEN "NonZeroExit"
    ELSE "Exception"

\* C1: once all tasks are processed, in sequential and in parallel mode,
\* successful_tasks + failed_tasks is the number of dispatched tasks; while
\* the run goes on, it is the number of tasks processed so far, and no task
\* is processed twice.
C1_CountsAddUp ==
    /\ successful_tasks + failed_tasks = Len(order)
    /\ failed_tasks = Len(failed_task_details)
    /\ Cardinality(Collected) = Len(order)
    /\ pc \in {"summary", "done"} => successful_tasks + failed_tasks = Len(tasks)
    /\ pc = "done" =>
          /\ results.total_tasks = Len(tasks)
          /\ results.successful_tasks + results.failed_tasks = results.total_tasks

\* Both modes have run to the end, with successes and failures.
C1_Witness ==
    /\ pc = "done"
    /\ prev_run.pc = "done"
    /\ successful_tasks > 0
    /\ failed_tasks > 0
    /\ prev_run.results.failed_tasks > 0

\* Exactly one process hangs, every other process exits with code 0 at once.
OneHangs(h) ==
    /\ beh[h] = "hang"
    /\ \A t \in Tasks \ {h} : beh[t] = "exit0"

\* C2: when exactly one process hangs and every other exits with code 0
\* quickly, no process is waited on beyond the ceiling, the run does not
\* stop before its end, and it ends with N-1 successes and one failure,
\* recorded as Timeout.
C2_OneTimeout ==
    \A h \in Tasks :
        OneHangs(h) =>
            /\ \A t \in Tasks : elapsed[t] <= (IF t = h THEN TIMEOUT ELSE 0)
            /\ pc # "crashed"
            /\ pc # "done" => ENABLED Next
            /\ pc = "done" =>
                  /\ successful_tasks = N - 1
                  /\ failed_tasks = 1
                  /\ failed_task_details =
                        <<[task_name |-> TaskName(tasks[h]), error |-> "Timeout"]>>
                  /\ proc[h] = "killed"
                  /\ elapsed[h] = TIMEOUT

C2_Witness ==
    /\ pc = "done"
    /\ N = 3
    /\ OneHangs(2)
    /\ prev_run.pc = "done"

\* C3 as claimed: in parallel mode, for every pool size, while the one slow
\* task is running every other task has been started and collected.
C3_AnyPoolSize ==
    ~sequential =>
        \A s \in Tasks :
            (Slow = {s} /\ st[s] = "running" /\ elapsed[s] > 0) =>
                \A t \in Tasks \ {s} : t \in Collected

\* C3, amended: in parallel mode, when fewer tasks are slow than the pool
\* has workers, then while a slow task is running (time has passed for it)
\* every quick task has been started, has ended and has been collected,
\* also those submitted after the slow task.
C3_EnoughWorkers ==
    (~sequential /\ Cardinality(Slow) < max_workers) =>
        \A s \in Slow :
            (st[s] = "running" /\ elapsed[s] > 0) =>
                /\ s \notin Collected
                /\ \A t \in Quick : Settled(t) /\ t \in Collected

\* The first task hangs, and the two submitted after it are collected.
C3_Witness ==
    /\ ~sequential
    /\ N = 3
    /\ Slow = {1}
    /\ beh[1] = "hang"
    /\ st[1] = "running"
    /\ elapsed[1] = TIMEOUT
    /\ order = <<3, 2>>

\* C4: no failure of one task aborts the run: main never ends on an
\* exception, and at the end every task is counted and the summary written.
C4_NoAbort ==
    /\ pc # "crashed"
    /\ pc = "done" =>
          /\ Collected = Tasks
          /\ failed_tasks = Cardinality({t \in Tasks : beh[t] \notin {"exit0", "slow0"}})
          /\ Last(written) = "execution_results.json"

\* The set of failure entries of a summary.
Failures(r) == Range(r.failed_task_details)

\* C5: on the same tasks with the same behaviour, the sequential and the
\* parallel run end the same way, with the same counts and the same set of
\* failure entries.
C5_SameResult ==
    (Terminal /\ prev_run # NoRun) =>
        /\ pc = "done"
        /\ prev_run.pc = "done"
        /\ successful_tasks = prev_run.results.successful_tasks
        /\ failed_tasks = prev_run.results.failed_tasks
        /\ Range(failed_task_details) = Failures(prev_run.results)

C7_KilledAtCeiling ==
    /\ \A t \in Tasks :
          /\ outcome[t].kind # "none" => proc[t] # "running"
          /\ (outcome[t].kind = "return" /\ outcome[t].error = "Timeout")
                => proc[t] = "killed"
          /\ proc[t] = "killed" =>
                /\ elapsed[t] >= TIMEOUT
                /\ outcome[t] = RetTimeout(tasks[t])
          /\ proc[t] = "running" => elapsed[t] <= TIMEOUT
    /\ pc \in {"summary", "done", "crashed"} => \A t \in Tasks : proc[t] # "running"

C7_Witness ==
    \E t \in Tasks :
        /\ proc[t] = "killed"
        /\ t \in Collected
        /\ \E u \in Tasks : proc[u] = "running" /\ elapsed[u] > 0

(***************************************************************************)
(* Properties of the aggregator.                                           *)
(***************************************************************************)
\* A round with its directory and both report files.
BothReports(r) == r.dir /\ r.based.exists /\ r.free.exists

\* The complete rounds among those scanned so far.
CompleteRounds == {k \in 1..Len(disk) : BothReports(disk[k])}

\* The 8 metric fields of a round, and 8 times their mean.
FieldsRef(r) == ParseRefBased(r.based.lines)

FieldsFree(r) == [k \in FreeKeys |-> 20 * r.free.json[k].score]

Composite8(r) == SumRef(FieldsRef(r)) + SumFree(FieldsFree(r))

\* The lowest-numbered complete round with the maximum composite score.
FirstMax ==
    LET cr == CompleteRounds
        sc == [k \in cr |-> Composite8(disk[k])]
    IN  CHOOSE k \in cr :
            /\ \A j \in cr : sc[j] <= sc[k]
            /\ \A j \in cr : sc[j] = sc[k] => k <= j

\* C8: the rounds are scanned in ascending order from 1 to 10, and after
\* each of them the best round is the lowest-numbered complete round scanned
\* whose composite score is the maximum over the complete rounds scanned.
C8_FirstMaxWins ==
    g_pc = "rounds" =>
        /\ round_num \in 1..(ROUNDS + 1)
        /\ Len(disk) = round_num - 1
        /\ IF CompleteRounds = {}
              THEN best_round_num = NoRound
              ELSE LET fm == FirstMax
                   IN  /\ best_round_num = fm
                       /\ best_round_score = Composite8(disk[fm])
                       /\ best_round_ref_eval = FieldsRef(disk[fm])
                       /\ best_round_ref_free_eval = FieldsFree(disk[fm])

\* Composites 70, 85, 85 in rounds 1, 2, 3: round 2 is selected.
C8_Witness ==
    /\ g_pc = "rounds"
    /\ round_num = ROUNDS + 1
    /\ CompleteRounds = {1, 2, 3}
    /\ Composite8(disk[1]) = 8 * 70
    /\ Composite8(disk[2]) = 8 * 85
    /\ Composite8(disk[3]) = 8 * 85
    /\ best_round_num = 2

\* C9: a round without both report files is not parsed, changes nothing of
\* the best round, and is never the best round; what an item adds to the
\* running sums is the fields of one of its complete rounds, or nothing.
C9_Step ==
    /\ (g_pc = "rounds" /\ round_num' = round_num + 1
          /\ ~BothReports(disk'[round_num])) =>
          /\ opened' = opened
          /\ best_round_num' = best_round_num
          /\ best_round_score' = best_round_score
          /\ best_round_ref_eval' = best_round_ref_eval
          /\ best_round_ref_free_eval' = best_round_ref_free_eval
    /\ g_pc' = "rounds" =>
          /\ best_round_num' # NoRound => BothReports(disk'[best_round_num'])
          /\ \A f \in opened' : BothReports(disk'[f[1]])
    /\ (g_pc = "rounds" /\ g_pc' = "slide") =>
          \/ /\ ref_eval_result' = ref_eval_result
             /\ ref_free_eval_result' = ref_free_eval_result
          \/ \E k \in CompleteRounds :
                /\ ref_eval_result' = AddBest(ref_eval_result, FieldsRef(disk[k]))
                /\ ref_free_eval_result' =
                      AddBest(ref_free_eval_result, FieldsFree(disk[k]))

C9_IncompleteExcluded == [][C9_Step]_vars

\* A round with the reference-based report only, a complete round, and a
\* round with the reference-free report only; the complete one is the best.
C9_Witness ==
    /\ g_pc = "rounds"
    /\ round_num = ROUNDS + 1
    /\ disk[1] = Round(TRUE, Based85, NoFree)
    /\ disk[2] = Round(TRUE, Based70, Free70)
    /\ disk[3] = Round(TRUE, NoBased, Free85)
    /\ best_round_num = 2

\* The number of items gathered that had no best round.
RECURSIVE CountFailed(_)
CountFailed(h) ==
    IF h = <<>> THEN 0
    ELSE (IF Head(h) THEN 0 ELSE 1) + CountFailed(Tail(h))

\* C10: an item with no complete round leaves the 8 running sums as they
\* are, adds one to fail_num and one to total_num, and opens no file; the
\* final averages are the sums divided by the number of items gathered,
\* the failed ones included.
C10_Step ==
    /\ (g_pc = "rounds" /\ g_pc' = "slide" /\ CompleteRounds = {}) =>
          /\ ref_eval_result' = ref_eval_result
          /\ ref_free_eval_result' = ref_free_eval_result
          /\ fail_num' = fail_num + 1
          /\ total_num' = total_num + 1
          /\ opened' = {}
    /\ g_pc' = "done" =>
          /\ total_num' = Len(history')
          /\ fail_num' = CountFailed(history')
    /\ (g_pc = "names" /\ g_pc' = "done") =>
          /\ \A k \in RefKeys :
                ref_eval_result'[k] = <<ref_eval_result[k], Len(history)>>
          /\ \A k \in FreeKeys :
                ref_free_eval_result'[k] = <<ref_free_eval_result[k], Len(history)>>

C10_FailedItem == [][C10_Step]_vars

\* Two items: the first has a best round, the second only a round with one
\* report; the averages are over both.
C10_Witness ==
    /\ g_pc = "done"
    /\ history = <<TRUE, FALSE>>
    /\ fail_num = 1
    /\ ref_eval_result["match"] = <<90, 2>>
    /\ ref_free_eval_result["image"] = <<80, 2>>

\* The value after ": " on the line of ref_based.txt labelled with metric k.
ValueRead(r, k) ==
    LET ls == r.based.lines
        at == {j \in 1..Len(ls) : ls[j].has = {k}}
    IN  IF at = {} THEN 0 ELSE ls[CHOOSE j \in at : TRUE].val

\* 8 times the mean of the 8 metric fields of round r: the 4 reference-based
\* values as read and the 4 reference-free scores multiplied by 20.
EightFields(r) ==
    ValueRead(r, "match") + ValueRead(r, "text") + ValueRead(r, "color")
        + ValueRead(r, "position")
        + 20 * r.free.json["text"].score + 20 * r.free.json["image"].score
        + 20 * r.free.json["layout"].score + 20 * r.free.json["color"].score

\* C11: after a round is parsed, round_score is the mean of the 8 metric
\* fields of that round (the 4 reference-based values as read, the 4
\* reference-free scores times 20) and lies between 0 and 100; the best
\* round's score and fields are kept the same way.
C11_CompositeIsMean ==
    /\ round_score.set => (0 <= round_score.v /\ round_score.v <= 8 * 100)
    /\ (g_pc = "rounds" /\ round_num > 1 /\ BothReports(disk[round_num - 1])) =>
          /\ round_score.set
          /\ round_score.v = EightFields(disk[round_num - 1])
    /\ (g_pc = "rounds" /\ best_round_num # NoRound) =>
          /\ best_round_score = EightFields(disk[best_round_num])
          /\ best_round_score =
                SumRef(best_round_ref_eval) + SumFree(best_round_ref_free_eval)
          /\ \A k \in FreeKeys :
                best_round_ref_free_eval[k] = 20 * disk[best_round_num].free.json[k].score
          /\ \A k \in RefKeys :
                best_round_ref_eval[k] = ValueRead(disk[best_round_num], k)

\* A round whose 8 values are all at the top of their scales has just been
\* parsed: its composite score is 100.
C11_Witness ==
    /\ g_pc = "rounds"
    /\ round_num > 1
    /\ BothReports(disk[round_num - 1])
    /\ \A k \in FreeKeys : disk[round_num - 1].free.json[k].score = 5
    /\ \A k \in RefKeys : ValueRead(disk[round_num - 1], k) = 100
    /\ round_score = Score(8 * 100)

\* C12: with an empty task list main ends with exit status 1 at once:
\* nothing is dispatched, and the output directory, args.json, tasks.json
\* and execution_results.json are not written; main ends that way only on
\* an empty task list.
C12_NoTasksExit ==
    /\ tasks = <<>> =>
          /\ pc \in {"start", "exit1"}
          /\ pc = "start" => ENABLED MainSetup
          /\ written = <<>>
          /\ results = NoRun
          /\ order = <<>>
          /\ successful_tasks = 0 /\ failed_tasks = 0
    /\ pc = "exit1" => (tasks = <<>> /\ written = <<>>)
    /\ (tasks # <<>> /\ pc # "start") => written # <<>>

C12_Witness ==
    /\ tasks = <<>>
    /\ pc = "exit1"
    /\ written = <<>>

\* The tasks that did not succeed.
NotSucceeded == {t \in Tasks : beh[t] \notin {"exit0", "slow0"}}

\* C13: after a run the failure list has one entry for every task that did
\* not succeed and none for a task that succeeded: its length is
\* failed_tasks, and its task identifiers are the category/item identifiers
\* of the tasks that did not succeed, each once.
C13_FailureList ==
    pc = "done" =>
        /\ Len(failed_task_details) = failed_tasks
        /\ failed_tasks = Cardinality(NotSucceeded)
        /\ \A t \in NotSucceeded :
              Cardinality({k \in 1..Len(failed_task_details) :
                              failed_task_details[k].task_name = TaskName(tasks[t])}) = 1
        /\ \A k \in 1..Len(failed_task_details) :
              \E t \in NotSucceeded :
                  failed_task_details[k].task_name = TaskName(tasks[t])

\* The failure entry of task t in parallel mode, from what happens to its
\* process alone.
EntryOf(t) ==
    IF beh[t] = "exit1"
       THEN [task_name |-> <<tasks[t].task_name, tasks[t].task_dir[3]>>,
             error |-> CalledProcessErrorMsg]
    ELSE IF beh[t] = "hang"
       THEN [task_name |-> <<tasks[t].task_name, tasks[t].task_dir[3]>>,
             error |-> "Timeout"]
    ELSE IF beh[t] = "launchexc"
       THEN [task_name |-> <<tasks[t].task_name, tasks[t].task_dir[3]>>,
             error |-> OSErrorMsg]
    ELSE [task_name |-> <<tasks[t].task_dir[3]>>, error |-> PrepErrorMsg]

\* C14: in parallel mode the counters and the failure entries depend only
\* on the tasks collected so far, not on the order in which the tasks were
\* started, ended or collected: no update is lost, and at the end of the
\* run, when all tasks are collected, they are the same for every
\* interleaving.
C14_OrderIndependent ==
    ~sequential =>
        /\ successful_tasks = Cardinality(Collected \ NotSucceeded)
        /\ failed_tasks = Cardinality(Collected \cap NotSucceeded)
        /\ Len(failed_task_details) = failed_tasks
        /\ Range(failed_task_details) = {EntryOf(t) : t \in Collected \cap NotSucceeded}
        /\ pc \in {"summary", "done"} => Collected = Tasks
        /\ pc = "done" =>
              /\ results.successful_tasks = Cardinality(Tasks \ NotSucceeded)
              /\ results.failed_tasks = Cardinality(NotSucceeded)
              /\ Failures(results) = {EntryOf(t) : t \in NotSucceeded}

\* A parallel run of three tasks has ended; the first task submitted was
\* collected last, and two tasks failed.
C14_Witness ==
    /\ ~sequential
    /\ pc = "done"
    /\ N = 3
    /\ order[3] = 1
    /\ failed_tasks = 2
    /\ successful_tasks = 1

(***************************************************************************)
(* Properties of the evaluation dispatcher.                                *)
(***************************************************************************)
\* The entries of the item's directory whose name is a number.
Numbered == {<<"1">>, <<"2">>, <<"1", "0">>} \cap DOMAIN refine_path.dirs

\* The launches of a scorer on a round so far.
CallsOf(scorer, n) ==
    {k \in 1..Len(calls) : calls[k].scorer = scorer /\ calls[k].round = n}

Enumerated ==
    {c \in [cat : Range(TaskList(task)), j : 1..MaxEntries] :
        /\ c.j <= Len(Listing(dataset, c.cat))
        /\ Listing(dataset, c.cat)[c.j].name[1] = "slide"}

\* The entry a candidate of the enumeration stands for.
EntryAt(c) == Listing(dataset, c.cat)[c.j]

HasBoth(c) == {"start.py", "instruction.txt"} \subseteq EntryAt(c).has

\* The place of a candidate in the enumeration order.
Place(c) ==
    LET list == TaskList(task)
    IN  (MaxEntries + 1) * (CHOOSE k \in 1..Len(list) : list[k] = c.cat) + c.j

\* The candidate a task configuration was made from, if any.
MadeFrom(cfg) ==
    {c \in Enumerated :
        /\ cfg.task_name = c.cat
        /\ cfg.task_dir = <<"data", c.cat, EntryAt(c).name>>}

\* C16: the loader always returns; without an item identifier the list it
\* returns holds, in enumeration order and each once, exactly the slide_*
\* directories of the selected categories that contain start.py and
\* instruction.txt, whether they contain start.jpg or not; with an item
\* identifier it holds the one directory looked up if that contains both
\* files, and is empty otherwise.  A missing root or category directory
\* gives no task and no exception.
C16_AcceptedInOrder ==
    /\ l_pc = "load" => ENABLED MainLoad
    /\ (l_pc = "loaded" /\ task_id = None) =>
          /\ \A k \in 1..Len(loaded) :
                \E c \in MadeFrom(loaded[k]) : HasBoth(c)
          /\ \A c \in Enumerated :
                HasBoth(c) =>
                    Cardinality({k \in 1..Len(loaded) : c \in MadeFrom(loaded[k])}) = 1
          /\ \A a, b \in 1..Len(loaded) :
                a < b =>
                    \A ca \in MadeFrom(loaded[a]), cb \in MadeFrom(loaded[b]) :
                        Place(ca) < Place(cb)
    /\ (l_pc = "loaded" /\ task_id # None) =>
          LET found == {j \in 1..Len(Listing(dataset, task)) :
                          /\ Listing(dataset, task)[j].name = <<"slides", task_id[1]>>
                          /\ {"start.py", "instruction.txt"}
                                \subseteq Listing(dataset, task)[j].has}
          IN  IF found = {}
                 THEN loaded = <<>>
                 ELSE /\ Len(loaded) = 1
                      /\ loaded[1].task_name = task
                      /\ loaded[1].task_dir = <<"data", task, <<"slides", task_id[1]>>>>

\* All categories are enumerated: business holds slide_2 without start.jpg,
\* which is accepted, then slide_1 without instruction.txt, which is not;
\* food holds slide_1.
C16_Witness ==
    /\ l_pc = "loaded"
    /\ task = "all"
    /\ task_id = None
    /\ dataset.cats["business"].entries =
          << Entry(<<"slide", "2">>, {"start.py", "instruction.txt"}),
             Entry(<<"slide", "1">>, {"start.py", "start.jpg"}) >>
    /\ dataset.cats["food"].exists
    /\ Len(loaded) = 2
    /\ loaded[1].task_dir = <<"data", "business", <<"slide", "2">>>>
    /\ loaded[2].task_dir = <<"data", "food", <<"slide", "1">>>>

\* The entries of the selected category that are a valid item directory
\* for item identifier id under the naming of the enumeration, slide_<id>.
ValidItemDirs(id) ==
    {j \in 1..Len(Listing(dataset, task)) :
        /\ Listing(dataset, task)[j].name = <<"slide", id>>
        /\ {"start.py", "instruction.txt"} \subseteq Listing(dataset, task)[j].has}

\* C17: with an item identifier k and a category that holds a valid
\* directory slide_k, the loader returns exactly one task, for that
\* directory, and main goes on to run it; without a directory slide_k main
\* ends with exit status 1.
C17_ResolvesItem ==
    (l_pc # "load" /\ task_id # None /\ task # "all") =>
        IF ValidItemDirs(task_id[1]) # {}
           THEN /\ Len(loaded) = 1
                /\ loaded[1].task_name = task
                /\ loaded[1].task_dir = <<"data", task, <<"slide", task_id[1]>>>>
                /\ l_pc # "exit1"
           ELSE (\A j \in 1..Len(Listing(dataset, task)) :
                    Listing(dataset, task)[j].name # <<"slide", task_id[1]>>)
                => l_pc # "run"

\* How many times a run artifact was written.
Times(f) == Cardinality({k \in 1..Len(written) : written[k] = f})

\* C18: in a run with at least one task, args.json and tasks.json are
\* written once each, before any task is dispatched; execution_results.json
\* is written only after every task has a recorded outcome, with
\* total_tasks = successful_tasks + failed_tasks in it; and when the run
\* has ended each of the three was written exactly once.
C18_ArtifactsOnce ==
    tasks # <<>> =>
        /\ \A f \in {"args.json", "tasks.json", "execution_results.json"} : Times(f) <= 1
        /\ (\E t \in Tasks : st[t] # "new") =>
              (Times("args.json") = 1 /\ Times("tasks.json") = 1)
        /\ Times("execution_results.json") = 1 =>
              /\ Collected = Tasks
              /\ \A t \in Tasks : outcome[t].kind # "none"
              /\ results.total_tasks = results.successful_tasks + results.failed_tasks
              /\ results.total_tasks = Len(tasks)
        /\ Terminal =>
              \A f \in {"args.json", "tasks.json", "execution_results.json"} : Times(f) = 1

\* A round directory of the dispatcher as the aggregator finds it:
\* ref_eval_path is <round>/ref_based.txt, ref_free_eval_path is
\* <round>/ref_free.json.
AsGathered(d) ==
    Round(TRUE,
          IF d["ref_based.txt"] # "absent" THEN Based85 ELSE NoBased,
          IF d["ref_free.json"] # "absent" THEN Free85 ELSE NoFree)

\* C19: when the dispatcher has gone through an item, with each scorer
\* writing its report to the output path it was given, every round
\* directory 1..10 that holds refine.pptx and refine.jpg is complete for the
\* aggregator, and the two output paths handed to the scorers are the two
\* paths the aggregator checks.
C19_DispatcherFeedsAggregator ==
    e_pc = "done" =>
        \A n \in Numbered :
            (refine_path.dirs[n]["refine.pptx"] # "absent"
                /\ refine_path.dirs[n]["refine.jpg"] # "absent") =>
                /\ Complete(AsGathered(refine_path.dirs[n]))
                /\ {calls[k].output : k \in {j \in 1..Len(calls) : calls[j].round = n}}
                      = {"ref_based.txt", "ref_free.json"}

\* C20: when an item is finished, fail_num goes up by one if and only if
\* none of its rounds 1..10 is complete; otherwise fail_num stays, and the
\* 8 fields of exactly one round, a complete round with the highest
\* composite score, are added to the running sums, also when that score
\* is 0.
C20_Step ==
    (g_pc = "rounds" /\ g_pc' = "slide") =>
        /\ Len(disk) = ROUNDS
        /\ total_num' = total_num + 1
        /\ history' = Append(history, CompleteRounds # {})
        /\ IF CompleteRounds = {}
              THEN /\ fail_num' = fail_num + 1
                   /\ ref_eval_result' = ref_eval_result
                   /\ ref_free_eval_result' = ref_free_eval_result
              ELSE /\ fail_num' = fail_num
                   /\ best_round_num \in CompleteRounds
                   /\ \A j \in CompleteRounds :
                         Composite8(disk[j]) <= Composite8(disk[best_round_num])
                   /\ \A k \in RefKeys :
                         ref_eval_result'[k] =
                            ref_eval_result[k] + ValueRead(disk[best_round_num], k)
                   /\ \A k \in FreeKeys :
                         ref_free_eval_result'[k] =
                            ref_free_eval_result[k]
                               + 20 * disk[best_round_num].free.json[k].score

C20_FailedIffNoCompleteRound == [][C20_Step]_vars

\* Two items are finished: the first had a best round, and its 8 fields were
\* all 0; the second had no complete round.
C20_Witness ==
    /\ g_pc = "slide"
    /\ history = <<TRUE, FALSE>>
    /\ fail_num = 1
    /\ total_num = 2
    /\ ref_eval_result = ZeroRef
    /\ ref_free_eval_result = ZeroFree

(***************************************************************************)
(* Properties of the order of the scorer processes.                        *)
(***************************************************************************)
\* The rounds whose pass through the loop body is over: the reference-based
\* scorer was launched on them and the dispatcher is past the test of the
\* preview.
Processed ==
    {n \in DOMAIN refine_path.dirs :
        /\ CallsOf(PageEval, n) # {}
        /\ ~(file = n /\ e_pc \in {"wait_ref_based", "ref_free"})}

\* C21: within one item at most one scorer process is running at any time;
\* a reference-free scorer is launched right after the reference-based
\* scorer of the same round, which has ended by then; and on a processed
\* round the reference-free scorer was launched exactly when the round
\* holds refine.jpg.
C21_ScorersSequential ==
    /\ Cardinality(alive) <= 1
    /\ \A k \in 1..Len(calls) :
          calls[k].scorer = ReferenceFreeEval =>
              /\ k > 1
              /\ calls[k - 1].scorer = PageEval
              /\ calls[k - 1].round = calls[k].round
              /\ (k - 1) \notin alive
    /\ \A n \in DOMAIN refine_path.dirs :
          CallsOf(ReferenceFreeEval, n) # {} =>
              refine_path.dirs[n]["refine.jpg"] # "absent"
    /\ \A n \in Processed :
          Cardinality(CallsOf(ReferenceFreeEval, n)) =
              IF refine_path.dirs[n]["refine.jpg"] # "absent" THEN 1 ELSE 0

\* Round 2 holds refine.pptx without a preview: only the reference-based
\* scorer ran on it. Round 1 holds both: its reference-based scorer has
\* ended and its reference-free scorer is the one process running.
C21_Witness ==
    /\ e_pc = "wait_ref_free"
    /\ DOMAIN refine_path.dirs = {<<"1">>, <<"2">>}
    /\ refine_path.dirs[<<"2">>]["refine.jpg"] = "absent"
    /\ refine_path.dirs[<<"1">>]["refine.jpg"] = "old"
    /\ calls = <<Call(PageEval, <<"2">>, "ref_based.txt"),
                 Call(PageEval, <<"1">>, "ref_based.txt"),
                 Call(ReferenceFreeEval, <<"1">>, "ref_free.txt")>>
    /\ alive = {3}

(***************************************************************************)
(* Properties of the worker pool of the evaluation dispatcher.             *)
(***************************************************************************)
\* The submitted calls of evaluate_single_slide that work on directory e.
CallsOn(e) == {j \in 1..Len(futures) : RefinePathOf(index_list[j]) = e}

\* C22: once the dispatcher has submitted the calls of a category, every
\* item directory of the category is the directory of exactly one call, and
\* no two calls running at the same time work on the same item directory.
C22_OneWorkerPerItem ==
    /\ m_pc \in {"collect", "done"} =>
          \A e \in NoDot(slides_dirs.names) : Cardinality(CallsOn(e)) = 1
    /\ \A j, k \in 1..Len(futures) :
          (j # k /\ futures[j] = "running" /\ futures[k] = "running") =>
              RefinePathOf(index_list[j]) # RefinePathOf(index_list[k])

(***************************************************************************)
(* Properties of the parse of the reference-based report.                  *)
(***************************************************************************)
\* The metric names the loop tests before name k.
TestedBefore(k) ==
    CASE k = "match" -> {}
      [] k = "text" -> {"match"}
      [] k = "color" -> {"match", "text"}
      [] k = "position" -> {"match", "text", "color"}

\* The number of the last of the given lines, 0 when there is none.
LastValue(at) ==
    IF at = {} THEN 0
    ELSE ref_eval_lines[CHOOSE j \in at : \A m \in at : m <= j].val

\* C23 as stated: after the parse every metric holds the number of the last
\* line that contains its name, also when that line contains other metric
\* names, and 0 when no line contains its name.
C23_EveryNamedMetricSet ==
    parse_pc = "parsed" =>
        \A k \in RefKeys :
            round_ref_eval[k] =
                LastValue({j \in 1..Len(ref_eval_lines) : k \in ref_eval_lines[j].has})

\* C23, amended: a line sets only the first of match, text, color, position
\* whose name it contains; after the parse every metric holds the number of
\* the last line in which it is that first name, and 0 when there is no such
\* line.
C23_FirstNamedMetricSet ==
    parse_pc = "parsed" =>
        \A k \in RefKeys :
            round_ref_eval[k] =
                LastValue({j \in 1..Len(ref_eval_lines) :
                              /\ k \in ref_eval_lines[j].has
                              /\ ref_eval_lines[j].has \cap TestedBefore(k) = {}})

\* A line with "color" alone, then a line that contains "text" and "color":
\* the second line sets text and leaves color at the first line's number.
C23_Witness ==
    /\ parse_pc = "parsed"
    /\ ref_eval_lines = <<Line({"color"}, 60), Line({"text", "color"}, 30)>>
    /\ round_ref_eval = [match |-> 0, text |-> 30, color |-> 60, position |-> 0]

(***************************************************************************)
(* Properties of the aggregator on a run without items.                    *)
(***************************************************************************)
\* C24: when the aggregator has gone through the categories and processed
\* no item (total_num = 0), it does not raise: it ends normally, with the 8
\* averages and the overall score at 0.
C24_NoItemsReturnsZeros ==
    (total_num = 0 /\ g_pc \in {"done", "crashed"}) =>
        /\ g_pc = "done"
        /\ \A k \in RefKeys : ref_eval_result[k] = 0
        /\ \A k \in FreeKeys : ref_free_eval_result[k] = 0
        /\ overall_score = 0
====
